---- MODULE Spec2Model ----
(***************************************************************************)
(* A model of the BioNLP -> BERT NER converter                             *)
(* (convert_bionlp_ner_train_to_bert_ner_train.py): the conversion of one  *)
(* document (SpecConvert) and the script that converts a directory of      *)
(* documents one after another (Spec).                                     *)
(*                                                                         *)
(* Strings are sequences of one-character strings.  A line of the output   *)
(* is the sequence the format '%s\t%s\n' builds: the characters of the     *)
(* word, a tab, the label, a newline; the blank line is <<"\n">>.          *)
(***************************************************************************)
EXTENDS Integers, Sequences, FiniteSets, TLC

VARIABLES
    passage_text,            \* convert_...: parameter passage_text
    ent_lines,               \* convert_...: parameter ent_lines
    sentence_break_indices,  \* convert_...: parameter sentence_break_indices
    ent_dict,                \* convert_...: local ent_dict
    ent_i,                   \* position of `for ent_line in ent_lines`
    word_i,                  \* position of `for word in passage_text.split(' ')`
    abstract_idx,            \* convert_...: local abstract_idx
    out_lines,               \* convert_...: local out_lines
    pc,                      \* "idle", "ents", "walk", "returned", "KeyError"
    abstr_files,             \* __main__: abstr_files, as [name, lines]
    passage_a1_files,        \* __main__: the F-*.a1 files glob found
    passage_txt_files,       \* __main__: the F-*.txt files glob found
    nlp,                     \* __main__: the sentence segmenter loaded
    mpc,                     \* __main__: "call", "abstr", "passages", "done"
    file_i,                  \* position of the loop over the files
    bert_train_lines,        \* __main__: bert_train_lines
    usable_files,            \* __main__: usable_files
    unusable_files,          \* __main__: unusable_files
    out_file,                \* the lines written to bert_train_outfile
    doc_sents,               \* get_sentence_break_indices: doc.sents
    valid_bacteria_df,       \* taxid script: the rows of valid_bacteria_df
    row_i,                   \* position of valid_bacteria_df.apply
    microorganism_taxid_dict,\* taxid script: microorganism_taxid_dict
    graph,                   \* obo script: the graph of the .obo file
    source_i,                \* position of `for source_node in graph.nodes()`
    category_nodes           \* get_nodes_by_category: category_nodes

frame == <<passage_text, ent_lines, sentence_break_indices, ent_dict, ent_i,
           word_i, abstract_idx, out_lines, pc>>

files == <<abstr_files, passage_a1_files, passage_txt_files, nlp>>

mainvars == <<mpc, file_i, bert_train_lines, usable_files, unusable_files,
              out_file>>

\* the state of the other scripts of the repository and of a lone call of
\* get_sentence_break_indices
taxvars == <<valid_bacteria_df, row_i, microorganism_taxid_dict>>
obovars == <<graph, source_i, category_nodes>>
others == <<doc_sents, taxvars, obovars>>

vars == <<frame, files, mainvars, others>>

----------------------------------------------------------------------------
(* Bounds of the model *)

MaxLen == 4      \* longest passage of the walk inputs
MaxEntLen == 3   \* longest passage of the annotation inputs
MaxEnts == 2     \* most annotation lines of a document
MaxBreaks == 2   \* most sentence breaks of a document
MaxFiles == 2    \* most files of a directory
MaxSents == 3    \* most sentences of a lone call's document
MaxSentLen == 3  \* longest sentence of a lone call's document
MaxRows == 2     \* most rows of valid_bacteria_df
MaxTerms == 3    \* most terms of an .obo file
MaxParents == 2  \* most is_a lines of a term

----------------------------------------------------------------------------
(* Strings *)

SP == " "
DOT == "."
TAB == "\t"
NL == "\n"

Range(s) == {s[i] : i \in 1..Len(s)}

\* str.split(' '): cut at every single space, keeping empty segments.
RECURSIVE Split(_)
Split(s) ==
    IF \A i \in 1..Len(s) : s[i] # SP
    THEN <<s>>
    ELSE LET p == CHOOSE i \in 1..Len(s) :
                      s[i] = SP /\ \A j \in 1..(i-1) : s[j] # SP
         IN  <<SubSeq(s, 1, p-1)>> \o Split(SubSeq(s, p+1, Len(s)))

----------------------------------------------------------------------------
(* get_sentence_break_indices: sents is doc.sents, each sentence the string
   str(sentence) *)

\* mutant: the space that follows a sentence is not counted
RECURSIVE SentenceBreaksNoSpace(_, _, _)
SentenceBreaksNoSpace(sents, n, idx) ==
    IF n > Len(sents)
    THEN <<>>
    ELSE <<idx + Len(sents[n])>>
         \o SentenceBreaksNoSpace(sents, n + 1, idx + Len(sents[n]))

RECURSIVE SentenceBreaksFrom(_, _, _)
SentenceBreaksFrom(sents, n, idx) ==
    IF n > Len(sents)
    THEN <<>>
    ELSE <<idx + Len(sents[n]) + 1>>
         \o SentenceBreaksFrom(sents, n + 1, idx + Len(sents[n]) + 1)

get_sentence_break_indices(sents) == SentenceBreaksFrom(sents, 1, 0)

\* a call of get_sentence_break_indices on a document nlp has segmented
SentenceBreakIndices ==
    /\ mpc = "breaks"
    /\ pc = "idle"
    /\ sentence_break_indices' = get_sentence_break_indices(doc_sents)
    /\ pc' = "returned"
    /\ UNCHANGED <<passage_text, ent_lines, ent_dict, ent_i, word_i,
                   abstract_idx, out_lines, files, mainvars, others>>

----------------------------------------------------------------------------
(* convert_bionlp_abstract_to_bert_train_format *)

label_dict ==
    [l \in {"Microorganism", "Habitat", "Phenotype"} |->
        CASE l = "Microorganism" -> "MORG"
          [] l = "Habitat"       -> "HAB"
          [] l = "Phenotype"     -> "PHE"]

\* mutant: the map is a module-level dict that outlives the call
KeptEntDict(d) == d

\* ent_dict = {}
NewEntDict(d) == <<>>

\* mutant: an offset already in the map keeps its entry (setdefault)
DictSetDefault(d, k, v) ==
    [x \in (DOMAIN d) \cup {k} |-> IF x \in DOMAIN d THEN d[x] ELSE v]

\* ent_dict[k] = v
DictSet(d, k, v) == [x \in (DOMAIN d) \cup {k} |-> IF x = k THEN v ELSE d[x]]

\* `for token in ent_tokens[1:]`, from token number n on, idx the running index
RECURSIVE LaterTokens(_, _, _, _, _)
LaterTokens(d, ent_tokens, n, idx, bert_label) ==
    IF n > Len(ent_tokens)
    THEN d
    ELSE LET token == ent_tokens[n]
         IN  LaterTokens(
                 DictSet(d, idx, [end   |-> idx + Len(token),
                                  token |-> token,
                                  label |-> "I-" \o bert_label]),
                 ent_tokens, n + 1, idx + Len(token) + 1, bert_label)

\* mutant: the labels are built from the BioNLP label, not the BERT label
EntDictRawLabel(d, ent_line) ==
    LET bert_label == ent_line.label
        ent_tokens == Split(ent_line.text)
        first      == DictSet(d, ent_line.start,
                              [end   |-> ent_line.end,
                               token |-> ent_tokens[1],
                               label |-> "B-" \o bert_label])
    IN  LaterTokens(first, ent_tokens, 2,
                    ent_line.start + Len(ent_tokens[1]) + 1, bert_label)

\* the body of `for ent_line in ent_lines` once the label is looked up
EntDictWith(d, ent_line) ==
    LET bert_label == label_dict[ent_line.label]
        ent_tokens == Split(ent_line.text)
        first      == DictSet(d, ent_line.start,
                              [end   |-> ent_line.end,
                               token |-> ent_tokens[1],
                               label |-> "B-" \o bert_label])
    IN  LaterTokens(first, ent_tokens, 2,
                    ent_line.start + Len(ent_tokens[1]) + 1, bert_label)

\* ent = ent_dict.get(abstract_idx); out_label = ent['label'] if ent else 'O'
OutLabel(d, idx) == IF idx \in DOMAIN d THEN d[idx].label ELSE "O"

Line(word, label) == word \o <<TAB, label, NL>>
BlankLine == <<NL>>

\* mutant: the period of a split word keeps the label of the word
WordLinesTaggedPeriod(word, out_label, end, breaks) ==
    IF word[Len(word)] = DOT /\ end \in Range(breaks)
    THEN <<Line(SubSeq(word, 1, Len(word) - 1), out_label),
           Line(<<word[Len(word)]>>, out_label)>>
    ELSE <<Line(word, out_label)>>

\* mutant: the period of a split word gets no line of its own
WordLinesNoPeriod(word, out_label, end, breaks) ==
    IF word[Len(word)] = DOT /\ end \in Range(breaks)
    THEN <<Line(SubSeq(word, 1, Len(word) - 1), out_label)>>
    ELSE <<Line(word, out_label)>>

\* the one or two lines appended for a non-empty word
WordLines(word, out_label, end, breaks) ==
    IF word[Len(word)] = DOT /\ end \in Range(breaks)
    THEN <<Line(SubSeq(word, 1, Len(word) - 1), out_label),
           Line(<<word[Len(word)]>>, "O")>>
    ELSE <<Line(word, out_label)>>

\* mutant: the separating space is not counted
AdvanceIdxNoSpace(idx, word) == idx + Len(word)

\* abstract_idx += len(word) + 1
AdvanceIdx(idx, word) == idx + Len(word) + 1

\* the blank line appended when the new index is a sentence break
BreakLines(idx, breaks) == IF idx \in Range(breaks) THEN <<BlankLine>> ELSE <<>>

Words == Split(passage_text)

\* mutant: a line with an unknown label is skipped
ParseEntLineSkipUnknown ==
    /\ pc = "ents"
    /\ ent_i <= Len(ent_lines)
    /\ LET ent_line == ent_lines[ent_i]
       IN  ent_dict' = IF ent_line.label \in DOMAIN label_dict
                       THEN EntDictWith(ent_dict, ent_line)
                       ELSE ent_dict
    /\ ent_i' = ent_i + 1
    /\ UNCHANGED <<passage_text, ent_lines, sentence_break_indices, word_i,
                   abstract_idx, out_lines, pc, files, others, mainvars>>

ParseEntLine ==
    /\ pc = "ents"
    /\ ent_i <= Len(ent_lines)
    /\ LET ent_line == ent_lines[ent_i]
       IN  IF ent_line.label \in DOMAIN label_dict
           THEN /\ ent_dict' = EntDictWith(ent_dict, ent_line)
                /\ ent_i' = ent_i + 1
                /\ pc' = "ents"
           ELSE /\ pc' = "KeyError"
                /\ UNCHANGED <<ent_dict, ent_i>>
    /\ UNCHANGED <<passage_text, ent_lines, sentence_break_indices, word_i,
                   abstract_idx, out_lines, files, others, mainvars>>

StartWalk ==
    /\ pc = "ents"
    /\ ent_i > Len(ent_lines)
    /\ out_lines' = <<>>
    /\ abstract_idx' = 0
    /\ word_i' = 1
    /\ pc' = "walk"
    /\ UNCHANGED <<passage_text, ent_lines, sentence_break_indices, ent_dict,
                   ent_i, files, others, mainvars>>

WalkWord ==
    /\ pc = "walk"
    /\ word_i <= Len(Words)
    /\ LET word == Words[word_i]
       IN  IF word # <<>>
           THEN LET out_label == OutLabel(ent_dict, abstract_idx)
                    end       == abstract_idx + Len(word) + 1
                    idx       == AdvanceIdx(abstract_idx, word)
                IN  /\ out_lines' = out_lines
                           \o WordLines(word, out_label, end,
                                        sentence_break_indices)
                           \o BreakLines(idx, sentence_break_indices)
                    /\ abstract_idx' = idx
           ELSE UNCHANGED <<out_lines, abstract_idx>>
    /\ word_i' = word_i + 1
    /\ UNCHANGED <<passage_text, ent_lines, sentence_break_indices, ent_dict,
                   ent_i, pc, files, others, mainvars>>

Return ==
    /\ pc = "walk"
    /\ word_i > Len(Words)
    /\ pc' = "returned"
    /\ UNCHANGED <<passage_text, ent_lines, sentence_break_indices, ent_dict,
                   ent_i, word_i, abstract_idx, out_lines, files, others, mainvars>>

----------------------------------------------------------------------------
(* The script: __main__ and the functions it calls.  A line of an .a1 file
   is the record [label, start, end, text] of its tab- and space-separated
   fields; the Title and Paragraph lines carry the text of the document. *)

\* str.strip() of a string of letters, periods and spaces
RECURSIVE Strip(_)
Strip(s) ==
    IF s = <<>> THEN s
    ELSE IF s[1] = SP THEN Strip(Tail(s))
    ELSE IF s[Len(s)] = SP THEN Strip(SubSeq(s, 1, Len(s) - 1))
    ELSE s

\* ' '.join(strings)
RECURSIVE Join(_)
Join(strings) ==
    IF strings = <<>> THEN <<>>
    ELSE IF Len(strings) = 1 THEN strings[1]
    ELSE strings[1] \o <<SP>> \o Join(Tail(strings))

StrippedTexts(lines) == [n \in 1..Len(lines) |-> Strip(lines[n].text)]

extract_and_merge_title_and_abstract(bionlp_lines) ==
    LET title_lines ==
            StrippedTexts(SelectSeq(bionlp_lines,
                                    LAMBDA l : l.label = "Title"))
        abstr_lines ==
            StrippedTexts(SelectSeq(bionlp_lines,
                                    LAMBDA l : l.label = "Paragraph"))
    IN  Join(title_lines \o abstr_lines)

extract_ent_lines(bionlp_lines) ==
    SelectSeq(bionlp_lines, LAMBDA l : l.label \notin {"Title", "Paragraph"})

\* doc.sents of a segmenter that ends a sentence after every word that ends
\* with a period; cur holds the words of the sentence being read
RECURSIVE PeriodSents(_, _, _)
PeriodSents(words, n, cur) ==
    IF n > Len(words)
    THEN IF cur = <<>> THEN <<>> ELSE <<Join(cur)>>
    ELSE LET word == words[n]
         IN  IF word # <<>> /\ word[Len(word)] = DOT
             THEN <<Join(Append(cur, word))>>
                  \o PeriodSents(words, n + 1, <<>>)
             ELSE PeriodSents(words, n + 1, Append(cur, word))

\* doc.sents of nlp(doc_text), each sentence as str(sentence): the segmenter
\* is a collaborator, either the one above or one that finds one sentence
DocSents(doc_text) ==
    IF nlp = "period" THEN PeriodSents(Split(doc_text), 1, <<>>)
    ELSE IF doc_text = <<>> THEN <<>> ELSE <<doc_text>>

\* sorted(files): by file name
RECURSIVE SortedByName(_)
SortedByName(fs) ==
    IF fs = <<>> THEN <<>>
    ELSE LET m == CHOOSE i \in 1..Len(fs) :
                      \A j \in 1..Len(fs) : fs[i].name <= fs[j].name
         IN  <<fs[m]>>
             \o SortedByName(SubSeq(fs, 1, m - 1) \o SubSeq(fs, m + 1, Len(fs)))

\* list(zip(sorted(passage_a1_files), sorted(passage_txt_files)))
passage_file_tuples ==
    LET a1  == SortedByName(passage_a1_files)
        txt == SortedByName(passage_txt_files)
        n   == IF Len(a1) < Len(txt) THEN Len(a1) ELSE Len(txt)
    IN  [k \in 1..n |-> <<a1[k], txt[k]>>]

\* generate_article_train_lines up to the first statement of the converter
CallGenerate(article_text, bionlp_lines) ==
    /\ passage_text' = article_text
    /\ ent_lines' = extract_ent_lines(bionlp_lines)
    /\ sentence_break_indices' =
           get_sentence_break_indices(DocSents(article_text))
    /\ ent_dict' = NewEntDict(ent_dict)
    /\ ent_i' = 1
    /\ word_i' = 1
    /\ abstract_idx' = 0
    /\ out_lines' = <<>>
    /\ pc' = "ents"

\* one title/abstract file: read, and converted when it has two lines or more
AbstrFile ==
    /\ mpc = "abstr"
    /\ pc = "idle"
    /\ file_i <= Len(abstr_files)
    /\ LET bionlp_lines == abstr_files[file_i].lines
       IN  IF Len(bionlp_lines) > 1
           THEN /\ usable_files' = usable_files + 1
                /\ CallGenerate(
                       extract_and_merge_title_and_abstract(bionlp_lines),
                       bionlp_lines)
                /\ UNCHANGED <<file_i, unusable_files>>
           ELSE /\ unusable_files' =
                       Append(unusable_files, abstr_files[file_i].name)
                /\ file_i' = file_i + 1
                /\ UNCHANGED <<frame, usable_files>>
    /\ UNCHANGED <<files, others, mpc, bert_train_lines, out_file>>

\* mutant: the output file is written as each document is converted
AccumulateAndWrite ==
    /\ mpc \in {"abstr", "passages"}
    /\ pc = "returned"
    /\ bert_train_lines' = bert_train_lines \o out_lines
    /\ out_file' = Append(out_file, bert_train_lines')
    /\ file_i' = file_i + 1
    /\ pc' = "idle"
    /\ UNCHANGED <<passage_text, ent_lines, sentence_break_indices, ent_dict,
                   ent_i, word_i, abstract_idx, out_lines, files, others, mpc,
                   usable_files, unusable_files>>

\* bert_train_lines += generate_article_train_lines(...), either loop
Accumulate ==
    /\ mpc \in {"abstr", "passages"}
    /\ pc = "returned"
    /\ bert_train_lines' = bert_train_lines \o out_lines
    /\ file_i' = file_i + 1
    /\ pc' = "idle"
    /\ UNCHANGED <<passage_text, ent_lines, sentence_break_indices, ent_dict,
                   ent_i, word_i, abstract_idx, out_lines, files, others, mpc,
                   usable_files, unusable_files, out_file>>

\* the loop over the title/abstract files ends
AbstrDone ==
    /\ mpc = "abstr"
    /\ pc = "idle"
    /\ file_i > Len(abstr_files)
    /\ mpc' = "passages"
    /\ file_i' = 1
    /\ UNCHANGED <<frame, files, others, bert_train_lines, usable_files,
                   unusable_files, out_file>>

\* one body passage: its .a1 file and its .txt file read, and converted
PassageFile ==
    /\ mpc = "passages"
    /\ pc = "idle"
    /\ file_i <= Len(passage_file_tuples)
    /\ LET a1_file  == passage_file_tuples[file_i][1]
           txt_file == passage_file_tuples[file_i][2]
       IN  CallGenerate(Join(StrippedTexts(txt_file.lines)), a1_file.lines)
    /\ UNCHANGED <<files, others, mainvars>>

\* the output file is written
WriteOutFile ==
    /\ mpc = "passages"
    /\ pc = "idle"
    /\ file_i > Len(passage_file_tuples)
    /\ out_file' = Append(out_file, bert_train_lines)
    /\ mpc' = "done"
    /\ UNCHANGED <<frame, files, others, file_i, bert_train_lines, usable_files,
                   unusable_files>>

----------------------------------------------------------------------------
(* The inputs of one call *)

Chars == {"a", DOT, SP}
Labels == {"Microorganism", "Habitat", "Phenotype", "Geographical"}

StringsOver(alphabet, lo, hi) == UNION {[1..n -> alphabet] : n \in lo..hi}

\* the standoff annotations of passage p: a label and a span [start, end) of
\* p that neither starts nor ends with a space, with the text of the span
Spans(p) ==
    {se \in (0..Len(p)) \X (0..Len(p)) :
        /\ se[1] < se[2]
        /\ p[se[1] + 1] # SP
        /\ p[se[2]] # SP}

Annotations(p, labels) ==
    {[label |-> l, start |-> se[1], end |-> se[2],
      text |-> SubSeq(p, se[1] + 1, se[2])] : l \in labels, se \in Spans(p)}

ListsOver(S, n) == UNION {[1..k -> S] : k \in 0..n}

RECURSIVE SortedSeq(_)
SortedSeq(S) ==
    IF S = {} THEN <<>>
    ELSE LET m == CHOOSE x \in S : \A y \in S : x <= y
         IN  <<m>> \o SortedSeq(S \ {m})

\* strictly increasing lists of at most n offsets in 1..hi
BreakLists(hi, n) ==
    {SortedSeq(S) : S \in {T \in SUBSET (1..hi) : Cardinality(T) <= n}}

\* the taxid script and the obo script are not run, no lone call is made
EmptyGraph == [nodes |-> <<>>, name |-> <<>>, adj |-> <<>>]
OthersIdle ==
    /\ doc_sents = <<>>
    /\ valid_bacteria_df = <<>>
    /\ row_i = 1
    /\ microorganism_taxid_dict = <<>>
    /\ graph = EmptyGraph
    /\ source_i = 1
    /\ category_nodes = <<>>

\* the convert script is not run
ConvertIdle ==
    /\ passage_text = <<>>
    /\ ent_lines = <<>>
    /\ sentence_break_indices = <<>>
    /\ ent_dict = <<>>
    /\ ent_i = 1
    /\ word_i = 1
    /\ abstract_idx = 0
    /\ out_lines = <<>>
    /\ pc = "idle"
    /\ abstr_files = <<>>
    /\ passage_a1_files = <<>>
    /\ passage_txt_files = <<>>
    /\ nlp = "whole"
    /\ file_i = 1
    /\ bert_train_lines = <<>>
    /\ usable_files = 0
    /\ unusable_files = <<>>
    /\ out_file = <<>>

\* the state at the entry of a call that no script makes
Entry(p, e, b) ==
    /\ passage_text = p
    /\ ent_lines = e
    /\ sentence_break_indices = b
    /\ ent_dict = NewEntDict(<<>>)
    /\ ent_i = 1
    /\ word_i = 1
    /\ abstract_idx = 0
    /\ out_lines = <<>>
    /\ pc = "ents"
    /\ abstr_files = <<>>
    /\ passage_a1_files = <<>>
    /\ passage_txt_files = <<>>
    /\ nlp = "whole"
    /\ mpc = "call"
    /\ file_i = 1
    /\ bert_train_lines = <<>>
    /\ usable_files = 0
    /\ unusable_files = <<>>
    /\ out_file = <<>>
    /\ OthersIdle

\* any passage, any sentence breaks, at most one annotation
WalkInputs ==
    \E p \in StringsOver(Chars, 1, MaxLen) :
        \E e \in ListsOver(Annotations(p, {"Phenotype"}), 1) :
            \E b \in BreakLists(Len(p) + 1, MaxBreaks) : Entry(p, e, b)

\* passages of letters and spaces, no sentence break, any annotation list
\* with two of the known categories and an unknown one
EntInputs ==
    \E p \in StringsOver({"a", SP}, 1, MaxEntLen) :
        \E e \in ListsOver(Annotations(p, Labels \ {"Phenotype"}), MaxEnts) :
            Entry(p, e, <<>>)

\* the example of the specification's section 8
ExamplePassage ==
    <<"r","e","p","o","r","t","e","d"," ","t","h","a","t"," ",
      "b","e","t","a"," ","g","l","u","c","a","n"," ",
      "p","r","o","d","u","c","e","d"," ","b","y",".">>
ExampleEnts ==
    <<[label |-> "Phenotype", start |-> 14, end |-> 25,
       text |-> SubSeq(ExamplePassage, 15, 25)]>>
ExampleBreaks == <<39>>
ExampleInput == Entry(ExamplePassage, ExampleEnts, ExampleBreaks)

InitConvert == WalkInputs \/ EntInputs \/ ExampleInput

NextConvert == ParseEntLine \/ StartWalk \/ WalkWord \/ Return

SpecConvert == InitConvert /\ [][NextConvert]_vars

----------------------------------------------------------------------------
(* The documents of a lone call of get_sentence_break_indices: doc.sents is
   any list of sentences, each a string of letters and inner spaces *)

Sentences ==
    {t \in StringsOver({"a", SP}, 1, MaxSentLen) :
        t[1] # SP /\ t[Len(t)] # SP}

InitBreaks ==
    /\ \E n \in 0..MaxSents : \E ss \in [1..n -> Sentences] : doc_sents = ss
    /\ mpc = "breaks"
    /\ ConvertIdle
    /\ valid_bacteria_df = <<>>
    /\ row_i = 1
    /\ microorganism_taxid_dict = <<>>
    /\ graph = EmptyGraph
    /\ source_i = 1
    /\ category_nodes = <<>>

NextBreaks == SentenceBreakIndices

SpecBreaks == InitBreaks /\ [][NextBreaks]_vars

----------------------------------------------------------------------------
(* The directories the script is run on *)

BatchTexts == {<<"a">>, <<"a", DOT, SP, "a">>}

\* the entity lines of a document of the directory: none, or one of a known
\* or unknown category on the first word or on the whole text
BatchEnts(t) ==
    {<<>>}
    \cup {<<[label |-> l, start |-> 0, end |-> e, text |-> SubSeq(t, 1, e)]>> :
            l \in {"Habitat"}, e \in {1, Len(t)}}
    \cup {<<[label |-> "Geographical", start |-> 0, end |-> 1,
             text |-> SubSeq(t, 1, 1)]>>}

\* the text of a title/abstract file: the first word is the title, the rest,
\* if any, the abstract
TextLines(t) ==
    LET words == Split(t)
        title == [label |-> "Title", start |-> 0, end |-> Len(words[1]),
                  text |-> words[1]]
    IN  IF Len(words) = 1 THEN <<title>>
        ELSE <<title,
               [label |-> "Paragraph", start |-> Len(words[1]) + 1,
                end |-> Len(t), text |-> SubSeq(t, Len(words[1]) + 2, Len(t))]>>

AbstrContents ==
    {<<>>} \cup UNION {{TextLines(t) \o e : e \in BatchEnts(t)} : t \in BatchTexts}

\* a body passage: the entity lines of its .a1 file and the lines of its .txt
\* file, one word a line
PassageContents ==
    UNION {{[a1 |-> e, txt |-> [n \in 1..Len(Split(t)) |->
                                   [text |-> Split(t)[n]]]] :
              e \in BatchEnts(t)} : t \in BatchTexts}

Named(contents) == [n \in 1..Len(contents) |-> [name |-> n, lines |-> contents[n]]]
Reversed(s) == [n \in 1..Len(s) |-> s[Len(s) + 1 - n]]

Init ==
    \E na \in 0..MaxFiles :
        \E ac \in [1..na -> AbstrContents] :
            \E pcs \in ListsOver(PassageContents, MaxFiles - na) :
                \E a1_rev, txt_rev \in BOOLEAN :
                    LET a1s  == Named([n \in 1..Len(pcs) |-> pcs[n].a1])
                        txts == Named([n \in 1..Len(pcs) |-> pcs[n].txt])
                    IN  /\ abstr_files = Named(ac)
                        /\ passage_a1_files =
                               IF a1_rev THEN Reversed(a1s) ELSE a1s
                        /\ passage_txt_files =
                               IF txt_rev THEN Reversed(txts) ELSE txts
    /\ nlp \in {"whole", "period"}
    /\ mpc = "abstr"
    /\ file_i = 1
    /\ bert_train_lines = <<>>
    /\ usable_files = 0
    /\ unusable_files = <<>>
    /\ out_file = <<>>
    /\ passage_text = <<>>
    /\ ent_lines = <<>>
    /\ sentence_break_indices = <<>>
    /\ ent_dict = <<>>
    /\ ent_i = 1
    /\ word_i = 1
    /\ abstract_idx = 0
    /\ out_lines = <<>>
    /\ pc = "idle"
    /\ OthersIdle

Next ==
    \/ AbstrFile
    \/ ParseEntLine
    \/ StartWalk
    \/ WalkWord
    \/ Return
    \/ Accumulate
    \/ AbstrDone
    \/ PassageFile
    \/ WriteOutFile

Spec == Init /\ [][Next]_vars

----------------------------------------------------------------------------
(* generate_bacteria_taxid_dict.py.  A row of valid_bacteria_df is the
   record [tax_id, rank, varietas, subspecies, species, genus]: rank is what
   ncbi.get_rank answers for tax_id, a name is a string or, where the
   lineage file has no name, the float NaN. *)

NaN == <<"nan">>

\* args.stopwords_file read into the list stopwords
stopwords == << <<"u">> >>

\* str.lower() over the letters of the names
Lower(s) ==
    [n \in 1..Len(s) |->
        CASE s[n] = "S" -> "s"
          [] s[n] = "U" -> "u"
          [] OTHER -> s[n]]

\* sub in s
Contains(s, sub) ==
    \E n \in 0..(Len(s) - Len(sub)) : SubSeq(s, n + 1, n + Len(sub)) = sub

Last(s) == s[Len(s)]

check_taxon_name_legitimacy(taxon, stops) ==
    IF taxon # NaN
    THEN ~ \E n \in 1..Len(Split(Lower(taxon))) :
               Split(Lower(taxon))[n] \in Range(stops)
    ELSE FALSE

TaxEntry(taxid, corrected_name, rank) ==
    [taxid |-> taxid, corrected_name |-> corrected_name, rank |-> rank]

\* mutant: the genus is not cut from the abbreviated name
AbbrevWholeName(species) ==
    <<species[1], DOT>> \o <<SP>> \o Join(Split(species))

\* '%s %s' % ('%s.' % species[0], ' '.join(species.split(' ')[1:]))
AbbrevSpeciesName(species) ==
    <<species[1], DOT>> \o <<SP>> \o Join(Tail(Split(species)))

\* the else branch: for taxon in [varietas, subspecies]
RECURSIVE LowerRankEntries(_, _, _, _, _)
LowerRankEntries(d, taxons, n, taxid, rank) ==
    IF n > Len(taxons) THEN d
    ELSE LowerRankEntries(
             IF check_taxon_name_legitimacy(taxons[n], stopwords)
             THEN DictSet(d, taxons[n], TaxEntry(taxid, taxons[n], rank))
             ELSE d,
             taxons, n + 1, taxid, rank)

\* the dictionary after generate_dict_entry(row...) on the dictionary d
generate_dict_entry(d, row) ==
    LET taxid   == row.tax_id
        rank    == row.rank
        species == row.species
        genus   == row.genus
    IN  IF rank = "genus"
        THEN IF check_taxon_name_legitimacy(genus, stopwords)
             THEN DictSet(d, genus, TaxEntry(taxid, genus, rank))
             ELSE d
        ELSE IF rank = "species"
        THEN IF check_taxon_name_legitimacy(species, stopwords)
             THEN IF Last(Split(species)) = <<"s", "p", DOT>>
                  THEN IF check_taxon_name_legitimacy(genus, stopwords)
                       THEN DictSet(d, species, TaxEntry(taxid, genus, rank))
                       ELSE d
                  ELSE LET d1 == DictSet(d, species,
                                         TaxEntry(taxid, species, rank))
                       IN  IF ~ Contains(species, <<"s", "p", DOT>>)
                           THEN DictSet(d1, AbbrevSpeciesName(species),
                                        TaxEntry(taxid, species, rank))
                           ELSE d1
             ELSE d
        ELSE LowerRankEntries(d, <<row.varietas, row.subspecies>>, 1,
                              taxid, rank)

\* valid_bacteria_df.apply(lambda row: generate_dict_entry(...)), one row
GenerateDictEntry ==
    /\ mpc = "taxids"
    /\ row_i <= Len(valid_bacteria_df)
    /\ microorganism_taxid_dict' =
           generate_dict_entry(microorganism_taxid_dict,
                               valid_bacteria_df[row_i])
    /\ row_i' = row_i + 1
    /\ UNCHANGED <<frame, files, mainvars, doc_sents, valid_bacteria_df,
                   obovars>>

\* the names of the lineages: the genus Sa, species of it, a species without
\* a species name (sp.), names that hold the stopword, in either case
GenusNames == {<<"S", "a">>, <<"u">>, NaN}
SpeciesNames ==
    {<<"S", "a", SP, "a">>,
     <<"S", "a", SP, "a", SP, "a">>,
     <<"S", "a">>,
     <<"S", "a", SP, "s", "p", DOT>>,
     <<"S", "a", SP, "s", "p", DOT, SP, "a">>,
     <<"S", "a", SP, "a", "s", "p", DOT>>,
     <<"u", SP, "S", "a">>,
     <<"U", SP, "S", "a">>}
SubspeciesNames == {<<"S", "a", SP, "a", SP, "p">>, <<"u", SP, "a">>}
VarietasNames == {<<"S", "a", SP, "a", SP, "s">>, <<"U", SP, "a">>}

Row(taxid, rank, varietas, subspecies, species, genus) ==
    [tax_id |-> taxid, rank |-> rank, varietas |-> varietas,
     subspecies |-> subspecies, species |-> species, genus |-> genus]

\* the lineages of the taxid t: a lineage has no name below its taxid's rank
Lineages(t) ==
    {Row(t, "genus", NaN, NaN, NaN, g) : g \in GenusNames}
    \cup {Row(t, "species", NaN, NaN, sp, g) :
            sp \in SpeciesNames, g \in GenusNames}
    \cup {Row(t, "subspecies", NaN, ss, sp, g) :
            ss \in SubspeciesNames, sp \in SpeciesNames, g \in GenusNames}
    \cup {Row(t, "varietas", v, ss, sp, g) :
            v \in VarietasNames, ss \in SubspeciesNames \cup {NaN},
            sp \in SpeciesNames, g \in GenusNames}

\* fewer lineages, for the files of several rows
FewLineages(t) ==
    {r \in Lineages(t) :
        /\ r.rank \in {"genus", "species"}
        /\ r.species \in {NaN, <<"S", "a", SP, "a">>,
                          <<"S", "a", SP, "s", "p", DOT>>,
                          <<"u", SP, "S", "a">>}
        /\ r.genus # <<"u">>}

TaxRun(df) ==
    /\ valid_bacteria_df = df
    /\ row_i = 1
    /\ microorganism_taxid_dict = <<>>
    /\ mpc = "taxids"
    /\ ConvertIdle
    /\ doc_sents = <<>>
    /\ graph = EmptyGraph
    /\ source_i = 1
    /\ category_nodes = <<>>

\* a file of one lineage, any; or of several of the fewer lineages, the
\* n-th row the lineage of the taxid n or of the taxid 1
InitTaxids ==
    \/ \E r \in Lineages(1) : TaxRun(<<r>>)
    \/ \E n \in 0..MaxRows :
           \E df \in [1..n -> FewLineages(1) \cup FewLineages(2)] : TaxRun(df)

NextTaxids == GenerateDictEntry

SpecTaxids == InitTaxids /\ [][NextTaxids]_vars

----------------------------------------------------------------------------
(* extract_obo_category_nodes.py.  A parsed term is the record
   [id, name, is_a]; the graph is the record [nodes, name, adj]: the node
   ids in the order they were added, the name in each node's attr_dict, and
   each node's is_a edges in the order they were added. *)

\* args.category
category == "cat"

\* a list without its repetitions: add_edge with a key the graph holds
\* already adds nothing
RECURSIVE Distinct(_)
Distinct(seq) ==
    IF seq = <<>> THEN <<>>
    ELSE LET front == Distinct(SubSeq(seq, 1, Len(seq) - 1))
         IN  IF Last(seq) \in Range(front) THEN front
             ELSE Append(front, Last(seq))

\* the second half of parse_obo_file_to_graph, on terms whose is_a targets
\* are terms of the file
parse_obo_file_to_graph(parsed_terms) ==
    [nodes |-> [n \in 1..Len(parsed_terms) |-> parsed_terms[n].id],
     name  |-> [t \in {parsed_terms[n].id : n \in 1..Len(parsed_terms)} |->
                   LET n == CHOOSE m \in 1..Len(parsed_terms) :
                                parsed_terms[m].id = t
                   IN  parsed_terms[n].name],
     adj   |-> [t \in {parsed_terms[n].id : n \in 1..Len(parsed_terms)} |->
                   LET n == CHOOSE m \in 1..Len(parsed_terms) :
                                parsed_terms[m].id = t
                   IN  Distinct(parsed_terms[n].is_a)]]

\* networkx edge_dfs from the node at the bottom of stack: next[v] is the
\* position of the iterator over the edges out of v, made when v is first
\* on top of the stack; the edges are yielded in the order of yielded
RECURSIVE EdgeDfs(_, _, _, _, _)
EdgeDfs(g, stack, next, visited_edges, yielded) ==
    IF stack = <<>> THEN yielded
    ELSE LET current_node == Last(stack)
             nxt == IF current_node \in DOMAIN next THEN next
                    ELSE DictSet(next, current_node, 1)
             k == nxt[current_node]
         IN  IF k > Len(g.adj[current_node])
             THEN EdgeDfs(g, SubSeq(stack, 1, Len(stack) - 1), nxt,
                          visited_edges, yielded)
             ELSE LET edge == <<current_node, g.adj[current_node][k]>>
                      moved == DictSet(nxt, current_node, k + 1)
                  IN  IF edge \notin visited_edges
                      THEN EdgeDfs(g, Append(stack, edge[2]), moved,
                                   visited_edges \cup {edge},
                                   Append(yielded, edge))
                      ELSE EdgeDfs(g, stack, moved, visited_edges, yielded)

edge_dfs(g, source) == EdgeDfs(g, <<source>>, <<>>, {}, <<>>)

\* the inner loop of get_nodes_by_category: source_node appended at every
\* edge of the search that ends in a node named category
Found(g, source_node, edges) ==
    [n \in 1..Len(SelectSeq(edges, LAMBDA i : g.name[i[2]] = category)) |->
        source_node]

\* one turn of `for source_node in graph.nodes()`
SearchFromSource ==
    /\ mpc = "obo"
    /\ source_i <= Len(graph.nodes)
    /\ LET source_node == graph.nodes[source_i]
       IN  category_nodes' =
               category_nodes
               \o Found(graph, source_node, edge_dfs(graph, source_node))
    /\ source_i' = source_i + 1
    /\ UNCHANGED <<frame, files, mainvars, doc_sents, taxvars, graph>>

\* the terms of an .obo file: ids 1..n, each named category or something
\* else, each with at most MaxParents is_a lines that name other terms
IsALists(n, t) ==
    {SortedSeq(S) : S \in {T \in SUBSET ((1..n) \ {t}) :
                              Cardinality(T) <= MaxParents}}

InitObo ==
    /\ \E n \in 1..MaxTerms :
           \E names \in [1..n -> {category, "x"}] :
               \E parents \in [1..n -> UNION {IsALists(n, t) : t \in 1..n}] :
                   /\ \A t \in 1..n : parents[t] \in IsALists(n, t)
                   /\ graph = parse_obo_file_to_graph(
                                  [t \in 1..n |-> [id |-> t, name |-> names[t],
                                                   is_a |-> parents[t]]])
    /\ source_i = 1
    /\ category_nodes = <<>>
    /\ mpc = "obo"
    /\ ConvertIdle
    /\ doc_sents = <<>>
    /\ valid_bacteria_df = <<>>
    /\ row_i = 1
    /\ microorganism_taxid_dict = <<>>

NextObo == SearchFromSource

SpecObo == InitObo /\ [][NextObo]_vars

----------------------------------------------------------------------------
(* Vocabulary of the properties *)

LineTag(line) == line[Len(line) - 1]
LineWord(line) == SubSeq(line, 1, Len(line) - 3)
NonBlank(lines) == SelectSeq(lines, LAMBDA l : l # <<NL>>)

\* the 0-based character position in the passage of its i-th split segment
RECURSIVE SegStart(_, _)
SegStart(segs, i) ==
    IF i = 1 THEN 0 ELSE SegStart(segs, i - 1) + Len(segs[i - 1]) + 1

\* the running offset the walk holds at the i-th split segment: the lengths,
\* plus one each, of the non-empty segments before it
RECURSIVE RunningOffset(_, _)
RunningOffset(segs, i) ==
    IF i = 1 THEN 0
    ELSE RunningOffset(segs, i - 1)
         + (IF segs[i - 1] # <<>> THEN Len(segs[i - 1]) + 1 ELSE 0)

\* the walk stands at a non-empty word
AtWord == pc = "walk" /\ word_i <= Len(Words) /\ Words[word_i] # <<>>

\* the lines a step of the walk appends
Appended == SubSeq(out_lines', Len(out_lines) + 1, Len(out_lines'))

EndsWithDot(w) == w # <<>> /\ w[Len(w)] = DOT

----------------------------------------------------------------------------
(* C2: at every non-empty word of the walk the running offset is the word's
   0-based character position in the passage (the offset advances by
   len(segment)+1 for every split segment, the empty ones included). *)
C2_RunningOffsetIsPosition ==
    AtWord => abstract_idx = SegStart(Words, word_i)

SplitTriggered(i) ==
    /\ EndsWithDot(Words[i])
    /\ RunningOffset(Words, i) + Len(Words[i]) + 1
           \in Range(sentence_break_indices)

(* C3: the number of non-blank lines is the number of non-empty segments
   walked plus one for every segment that triggered the period split (it
   ends with '.' and its running offset + len + 1 is a sentence break). *)
C3_WordCount ==
    pc \in {"walk", "returned"} =>
        Len(NonBlank(out_lines)) =
            Cardinality({i \in 1..(word_i - 1) : Words[i] # <<>>})
            + Cardinality({i \in 1..(word_i - 1) : SplitTriggered(i)})

\* a finished walk that skipped an empty segment and split a later word
C3_Witness ==
    /\ pc = "returned"
    /\ \E i, j \in 1..Len(Words) :
           i < j /\ Words[i] = <<>> /\ SplitTriggered(j)
    /\ Len(NonBlank(out_lines)) >= 3

(* C4: a word is emitted as (word without its period, tag), ('.', 'O')
   exactly when it ends with '.' and its end offset i+len(word)+1 is a
   sentence break; every other word is emitted as the one line (word, tag);
   the tag is the label the offset map holds at i, else 'O'. *)
C4_PeriodSplit ==
    [][AtWord =>
        LET word  == Words[word_i]
            i     == abstract_idx
            tag   == IF i \in DOMAIN ent_dict THEN ent_dict[i].label ELSE "O"
            split == EndsWithDot(word)
                     /\ i + Len(word) + 1 \in Range(sentence_break_indices)
            lines == NonBlank(Appended)
        IN  /\ split =>
                lines = <<SubSeq(word, 1, Len(word) - 1) \o <<TAB, tag, NL>>,
                          <<DOT, TAB, "O", NL>>>>
            /\ ~split => lines = <<word \o <<TAB, tag, NL>>>>
    ]_vars

\* a tagged word was split: its stem keeps the B- tag, its period is 'O'
C4_Witness ==
    /\ pc = "returned"
    /\ passage_text = <<"a", SP, "a", DOT>>
    /\ out_lines = << <<"a", TAB, "B-PHE", NL>>,
                      <<"a", TAB, "I-PHE", NL>>,
                      <<DOT, TAB, "O", NL>>,
                      <<NL>> >>

----------------------------------------------------------------------------
(* Annotations as the data model describes them *)

Toks(e) == Split(e.text)
\* the offset of the n-th sub-token: start plus len(token)+1 per earlier one
TokPos(e, n) == e.start + SegStart(Toks(e), n)
Offsets(e) == {TokPos(e, n) : n \in 1..Len(Toks(e))}
TokAt(e, k) == CHOOSE n \in 1..Len(Toks(e)) : TokPos(e, n) = k

WellFormed(e) ==
    /\ e.start < e.end
    /\ e.end <= Len(passage_text)
    /\ e.text = SubSeq(passage_text, e.start + 1, e.end)

\* annotation j shares no offset with another annotation
Alone(j) ==
    \A k \in 1..Len(ent_lines) :
        k # j => Offsets(ent_lines[j]) \cap Offsets(ent_lines[k]) = {}

KnownCategories == {"Microorganism", "Habitat", "Phenotype"}
CategoryTag(l) ==
    CASE l = "Microorganism" -> "MORG"
      [] l = "Habitat"       -> "HAB"
      [] l = "Phenotype"     -> "PHE"
      [] OTHER               -> "?"

\* the word at segment i holds character position q of the passage
Holds(i, q) ==
    /\ SegStart(Words, i) <= q
    /\ q < SegStart(Words, i) + Len(Words[i])

(* C1: the words holding the N sub-tokens of a well-formed annotation that
   collides with no other are tagged, in passage order, B-<CAT> and then
   I-<CAT>: the word holding the first sub-token B-<CAT>, each word holding a
   later sub-token I-<CAT>. *)
C1_BIOrdering ==
    [][AtWord =>
        \A j \in 1..Len(ent_lines) :
            LET e == ent_lines[j]
            IN  (WellFormed(e) /\ Alone(j)) =>
                    \A n \in 1..Len(Toks(e)) :
                        (Toks(e)[n] # <<>> /\ Holds(word_i, TokPos(e, n))) =>
                            LineTag(Appended[1]) =
                                (IF n = 1 THEN "B-" ELSE "I-")
                                    \o CategoryTag(e.label)
    ]_vars

----------------------------------------------------------------------------
(* Sentences: a passage cut into sentences after some of its words *)

WordIdx == {i \in 1..Len(Words) : Words[i] # <<>>}
LastWord == CHOOSE i \in WordIdx : \A j \in WordIdx : j <= i

\* the sets of words a segmenter may end a sentence after
Cuts == IF WordIdx = {} THEN {{}}
        ELSE {C \cup {LastWord} : C \in SUBSET WordIdx}

\* the sentence breaks for the cuts C: the position immediately following
\* the space that trails the last word of each sentence
BreaksAfter(C) ==
    SortedSeq({SegStart(Words, c) + Len(Words[c]) + 1 : c \in C})

NoLeadingBlank(lines) == lines # <<>> => lines[1] # <<NL>>
NoDoubleBlank(lines) ==
    \A i \in 1..(Len(lines) - 1) : ~(lines[i] = <<NL>> /\ lines[i + 1] = <<NL>>)

(* C5: when the sentence breaks are the offsets just after the passage's
   sentences, a blank line follows the last line of the last word of every
   sentence and no other line; the output never begins with a blank line and
   never holds two blank lines in a row. *)
C5_BlankLines ==
    [][\A C \in Cuts :
        sentence_break_indices = BreaksAfter(C) =>
            /\ NoLeadingBlank(out_lines')
            /\ NoDoubleBlank(out_lines')
            /\ AtWord =>
                   /\ Appended[Len(Appended)] = <<NL>> <=> word_i \in C
                   /\ \A n \in 1..(Len(Appended) - 1) : Appended[n] # <<NL>>
    ]_vars

----------------------------------------------------------------------------
TagSet == {"O", "B-MORG", "I-MORG", "B-HAB", "I-HAB", "B-PHE", "I-PHE"}

AllKnown == \A j \in 1..Len(ent_lines) : ent_lines[j].label \in KnownCategories

(* C6: when every annotation's category is Microorganism, Habitat or
   Phenotype, every non-blank line carries 'O' or one of the six B-/I- tags,
   and a word gets a tag other than 'O' only if its running offset is a key
   of the offset map. *)
C6_TagCoverage ==
    [][AllKnown =>
        /\ \A n \in 1..Len(out_lines') :
               out_lines'[n] # <<NL>> => LineTag(out_lines'[n]) \in TagSet
        /\ AtWord =>
               (LineTag(Appended[1]) # "O" => abstract_idx \in DOMAIN ent_dict)
    ]_vars

\* a finished document with known categories whose lines carry a B- tag,
\* an I- tag and 'O'
C6_Witness ==
    /\ pc = "returned"
    /\ AllKnown
    /\ LET tags == {LineTag(l) : l \in Range(NonBlank(out_lines))}
       IN  /\ tags \cap {"B-MORG", "B-HAB", "B-PHE"} # {}
           /\ tags \cap {"I-MORG", "I-HAB", "I-PHE"} # {}
           /\ "O" \in tags

HasUnknown ==
    \E j \in 1..Len(ent_lines) : ent_lines[j].label \notin KnownCategories

(* C7: when an annotation names a category outside Microorganism, Habitat,
   Phenotype, the call fails with a KeyError: it never reaches the walk, never
   returns and produces no line; and it fails so only then. *)
C7_UnknownCategoryFatal ==
    /\ HasUnknown => (pc \in {"ents", "KeyError"} /\ out_lines = <<>>)
    /\ pc = "KeyError" => HasUnknown
    /\ (pc = "ents" /\ ent_i > Len(ent_lines)) => ~HasUnknown

\* the call failed at its second annotation, after a known one entered the map
C7_Witness ==
    /\ pc = "KeyError"
    /\ ent_i = 2
    /\ DOMAIN ent_dict # {}
    /\ out_lines = <<>>

LastAt(k, n) ==
    CHOOSE j \in 1..n :
        /\ k \in Offsets(ent_lines[j])
        /\ \A i \in 1..n : k \in Offsets(ent_lines[i]) => i <= j

SpanAt(e, k) ==
    LET n == TokAt(e, k)
    IN  [end   |-> IF n = 1 THEN e.end ELSE k + Len(Toks(e)[n]),
         token |-> Toks(e)[n],
         label |-> (IF n = 1 THEN "B-" ELSE "I-") \o CategoryTag(e.label)]

(* C8: the offset map holds one entry per starting offset, the entry of the
   last annotation processed that has a sub-token at that offset, and that
   entry's label tags the word the walk finds at that offset. *)
C8_LastWriteWins ==
    [][LET n == ent_i' - 1
       IN  /\ DOMAIN ent_dict' = UNION {Offsets(ent_lines[j]) : j \in 1..n}
           /\ \A k \in DOMAIN ent_dict' :
                  ent_dict'[k] = SpanAt(ent_lines[LastAt(k, n)], k)
           /\ (AtWord /\ abstract_idx \in DOMAIN ent_dict) =>
                  LineTag(Appended[1]) =
                      SpanAt(ent_lines[LastAt(abstract_idx, n)],
                             abstract_idx).label
    ]_vars

\* the I- entry of a Habitat annotation was overwritten by the B- entry of a
\* later Microorganism annotation, which tagged the word
C8_Witness ==
    /\ pc = "returned"
    /\ passage_text = <<"a", SP, "a">>
    /\ Len(ent_lines) = 2
    /\ ent_lines[1].label = "Habitat" /\ ent_lines[1].start = 0
    /\ ent_lines[1].end = 3
    /\ ent_lines[2].label = "Microorganism" /\ ent_lines[2].start = 2
    /\ out_lines = << <<"a", TAB, "B-HAB", NL>>, <<"a", TAB, "B-MORG", NL>> >>

IsExample ==
    /\ passage_text = ExamplePassage
    /\ ent_lines = ExampleEnts
    /\ sentence_break_indices = ExampleBreaks

ExampleWords ==
    <<SubSeq(ExamplePassage, 1, 8), SubSeq(ExamplePassage, 10, 13),
      SubSeq(ExamplePassage, 15, 18), SubSeq(ExamplePassage, 20, 25),
      SubSeq(ExamplePassage, 27, 34), SubSeq(ExamplePassage, 36, 37)>>
ExampleTags == <<"O", "O", "B-PHE", "I-PHE", "O", "O">>
ExampleWordLines ==
    [n \in 1..6 |-> ExampleWords[n] \o <<TAB, ExampleTags[n], NL>>]

(* C9 as stated: the example's output is the seven lines (reported, O),
   (that, O), (beta, B-PHE), (glucan, I-PHE), (produced, O), (by, O), blank. *)
C9_ExampleSevenLines ==
    (IsExample /\ pc = "returned") =>
        out_lines = ExampleWordLines \o << <<NL>> >>

(* C9 amended: the example's output is eight lines, the six word lines, then
   the line ('.', 'O') of the split period, then the blank line. *)
C9_ExampleEightLines ==
    (IsExample /\ pc = "returned") =>
        out_lines = ExampleWordLines \o << <<DOT, TAB, "O", NL>>, <<NL>> >>

C9_Witness == IsExample /\ pc = "returned" /\ Len(out_lines) = 8

----------------------------------------------------------------------------
(* What one document's inputs alone determine *)

AllOffsets == UNION {Offsets(ent_lines[j]) : j \in 1..Len(ent_lines)}

\* the map of the document's annotations
DocMap == [k \in AllOffsets |-> SpanAt(ent_lines[LastAt(k, Len(ent_lines))], k)]

\* the lines of the document's i-th segment
DocWordLines(i) ==
    LET word == Words[i]
        off  == RunningOffset(Words, i)
        tag  == IF off \in AllOffsets THEN DocMap[off].label ELSE "O"
    IN  IF word = <<>> THEN <<>>
        ELSE (IF SplitTriggered(i)
              THEN <<SubSeq(word, 1, Len(word) - 1) \o <<TAB, tag, NL>>,
                     <<DOT, TAB, "O", NL>>>>
              ELSE <<word \o <<TAB, tag, NL>>>>)
             \o (IF off + Len(word) + 1 \in Range(sentence_break_indices)
                 THEN << <<NL>> >> ELSE <<>>)

RECURSIVE DocLines(_)
DocLines(n) == IF n = 0 THEN <<>> ELSE DocLines(n - 1) \o DocWordLines(n)

\* the documents the script converts, in the order it converts them, each as
\* its text and its entity lines
UsableAbstr == SelectSeq(abstr_files, LAMBDA f : Len(f.lines) > 1)
Converted ==
    [n \in 1..Len(UsableAbstr) |->
        [text |-> extract_and_merge_title_and_abstract(UsableAbstr[n].lines),
         ents |-> extract_ent_lines(UsableAbstr[n].lines)]]
    \o [n \in 1..Len(passage_file_tuples) |->
        [text |-> Join(StrippedTexts(passage_file_tuples[n][2].lines)),
         ents |-> extract_ent_lines(passage_file_tuples[n][1].lines)]]

\* lines is k copies of one block
Copies(lines, k) ==
    LET m == Len(lines) \div k
    IN  /\ Len(lines) = k * m
        /\ \A b \in 1..k :
               SubSeq(lines, (b - 1) * m + 1, b * m) = SubSeq(lines, 1, m)

(* C10: in a directory converted file after file, the map and the lines of
   a document are those its own passage, annotations and sentence breaks
   determine, whatever was converted before it; a directory that holds the
   same document several times yields the same lines as many times. *)
C10_Purity ==
    /\ pc \in {"walk", "returned"} =>
           /\ ent_dict = DocMap
           /\ out_lines = DocLines(word_i - 1)
    /\ (mpc = "done" /\ Len(Converted) >= 1
            /\ \A n \in 1..Len(Converted) : Converted[n] = Converted[1]) =>
           Copies(bert_train_lines, Len(Converted))

\* a directory whose title/abstract file and body passage are the same
\* annotated document was converted: the same tagged lines twice
C10_Witness ==
    /\ mpc = "done"
    /\ Len(abstr_files) = 1
    /\ Len(Converted) = 2
    /\ Converted[1] = Converted[2]
    /\ Len(Converted[1].ents) = 1
    /\ Len(bert_train_lines) = 10
    /\ LineTag(bert_train_lines[1]) = "B-HAB"
    /\ LineTag(bert_train_lines[4]) = "I-HAB"
    /\ LineTag(bert_train_lines[6]) = "B-HAB"
    /\ LineTag(bert_train_lines[9]) = "I-HAB"

----------------------------------------------------------------------------
(* The output file *)

\* the documents converted before the one the script is at
DocsDone ==
    IF mpc = "abstr"
    THEN Len(SelectSeq(SubSeq(abstr_files, 1, file_i - 1),
                       LAMBDA f : Len(f.lines) > 1))
    ELSE Len(UsableAbstr) + file_i - 1

Converting == pc \in {"ents", "walk", "returned", "KeyError"}

(* C14: the output file is written once, after every document has been
   converted: nothing is written before, so nothing is written when a
   conversion fails; the documents are converted in order, the
   title/abstract documents and then the body passages in sorted order, the
   lines of each appended as it returns; what is written is the lines
   gathered so. *)
C14_WrittenOnceInOrder ==
    /\ [](mpc # "done" => out_file = <<>>)
    /\ [](mpc = "done" =>
              /\ out_file = <<bert_train_lines>>
              /\ DocsDone = Len(Converted))
    /\ [](Converting =>
              /\ DocsDone < Len(Converted)
              /\ passage_text = Converted[DocsDone + 1].text
              /\ ent_lines = Converted[DocsDone + 1].ents)
    /\ [][(pc = "returned" /\ pc' = "idle") =>
              bert_train_lines' = bert_train_lines \o out_lines]_vars
    /\ [][bert_train_lines' # bert_train_lines =>
              (pc = "returned" /\ pc' = "idle")]_vars
    /\ [][pc = "KeyError" => UNCHANGED vars]_vars

\* a directory of a title/abstract file and a body passage was converted and
\* the lines of both, the passage's last, were written in one write
C14_Witness ==
    /\ mpc = "done"
    /\ Len(UsableAbstr) = 1
    /\ Len(passage_file_tuples) = 1
    /\ Converted[1].text = <<"a">>
    /\ Converted[2].text = <<"a", DOT, SP, "a">>
    /\ nlp = "whole"
    /\ Len(out_file) = 1
    /\ Len(out_file[1]) = 5
    /\ LineWord(out_file[1][1]) = <<"a">>
    /\ out_file[1][2] = <<NL>>
    /\ LineWord(out_file[1][3]) = <<"a", DOT>>
    /\ out_file[1][5] = <<NL>>

----------------------------------------------------------------------------
(* Sentence breaks *)

\* the sum over the first k sentences of (sentence length + 1)
RECURSIVE CumulativeLen(_)
CumulativeLen(k) ==
    IF k = 0 THEN 0 ELSE CumulativeLen(k - 1) + Len(doc_sents[k]) + 1

BreaksReturned == mpc = "breaks" /\ pc = "returned"

(* C11: get_sentence_break_indices returns one offset per sentence, in
   order, the k-th the sum over the first k sentences of (length + 1); the
   offsets are strictly increasing; in the passage that joins the sentences
   with one space each offset is the position just after the sentence's
   trailing space, where the next sentence starts (one past the end of the
   passage for the last sentence). *)
C11_SentenceBreakOffsets ==
    BreaksReturned =>
        LET b == sentence_break_indices
            P == Join(doc_sents)
            n == Len(doc_sents)
        IN  /\ Len(b) = n
            /\ \A k \in 1..n : b[k] = CumulativeLen(k)
            /\ \A k \in 1..(n - 1) : b[k] < b[k + 1]
            /\ \A k \in 1..(n - 1) :
                   /\ P[b[k]] = SP
                   /\ SubSeq(P, b[k] + 1, b[k] + Len(doc_sents[k + 1]))
                          = doc_sents[k + 1]
            /\ n >= 1 => b[n] = Len(P) + 1

\* the breaks of three sentences, the first of two words, were returned
C11_Witness ==
    /\ BreaksReturned
    /\ Len(doc_sents) = 3
    /\ doc_sents[1] = <<"a", SP, "a">>
    /\ sentence_break_indices[1] = 4
    /\ Len(sentence_break_indices) = 3

----------------------------------------------------------------------------
(* The taxid dictionary *)

\* generate_dict_entry processes the row valid_bacteria_df[row_i]
TaxStep == mpc = "taxids" /\ row_i' = row_i + 1
TaxRow == valid_bacteria_df[row_i]

Usable(name) == check_taxon_name_legitimacy(name, stopwords)

\* the names of a lineage from the most specific rank to the least specific
LineageNames(row) == <<row.varietas, row.subspecies, row.species, row.genus>>
HasUsable(row) == \E n \in 1..4 : Usable(LineageNames(row)[n])
FirstUsable(row) ==
    LineageNames(row)[CHOOSE n \in 1..4 :
                          /\ Usable(LineageNames(row)[n])
                          /\ \A m \in 1..(n - 1) : ~ Usable(LineageNames(row)[m])]

(* C12: generate_dict_entry adds the taxid of a lineage under the first
   usable name among varietas, subspecies, species, genus in this order, so
   a taxid whose most specific name is unusable is kept under a usable name
   of a higher rank. *)
C12_FallbackToHigherRank ==
    [][(TaxStep /\ HasUsable(TaxRow)) =>
           /\ FirstUsable(TaxRow) \in DOMAIN microorganism_taxid_dict'
           /\ microorganism_taxid_dict'[FirstUsable(TaxRow)].taxid
                  = TaxRow.tax_id]_vars

\* the words of a name after its first word
AfterFirstWord(name) ==
    IF \A n \in 1..Len(name) : name[n] # SP THEN <<>>
    ELSE LET p == CHOOSE n \in 1..Len(name) :
                      name[n] = SP /\ \A m \in 1..(n - 1) : name[m] # SP
         IN  SubSeq(name, p + 1, Len(name))

\* '<first letter of the species name>. <remaining words>'
Abbreviated(name) == <<name[1], DOT, SP>> \o AfterFirstWord(name)

SpDot == <<"s", "p", DOT>>
EndsInSp(name) ==
    name = SpDot
    \/ (Len(name) > 3 /\ SubSeq(name, Len(name) - 3, Len(name)) = <<SP>> \o SpDot)

(* C15: after generate_dict_entry processes a species-rank taxid whose
   species name is usable, (a) when the name does not contain 'sp.' the
   dictionary maps the name and its genus-abbreviated form to the taxid with
   corrected_name the species name; (b) when the name ends in the word 'sp.'
   no abbreviated entry is added, and the name is recorded, with
   corrected_name the genus, exactly when the genus name is usable. *)
C15_GenusAbbreviation ==
    [][(TaxStep /\ TaxRow.rank = "species" /\ Usable(TaxRow.species)) =>
           LET sp  == TaxRow.species
               d   == microorganism_taxid_dict
               new == microorganism_taxid_dict'
           IN  /\ ~ Contains(sp, SpDot) =>
                      /\ {sp, Abbreviated(sp)} \subseteq DOMAIN new
                      /\ new[sp] = [taxid |-> TaxRow.tax_id,
                                    corrected_name |-> sp, rank |-> "species"]
                      /\ new[Abbreviated(sp)] = new[sp]
               /\ EndsInSp(sp) =>
                      /\ DOMAIN new \subseteq DOMAIN d \cup {sp}
                      /\ IF Usable(TaxRow.genus)
                         THEN /\ sp \in DOMAIN new
                              /\ new[sp] = [taxid |-> TaxRow.tax_id,
                                            corrected_name |-> TaxRow.genus,
                                            rank |-> "species"]
                         ELSE new = d]_vars

\* the species 'Sa a' was processed and then the species 'Sa sp.' of a
\* usable genus: the dictionary holds 'Sa a', 'S. a' and 'Sa sp.'
C15_Witness ==
    /\ mpc = "taxids"
    /\ row_i = 3
    /\ valid_bacteria_df[1].rank = "species"
    /\ valid_bacteria_df[1].species = <<"S", "a", SP, "a">>
    /\ valid_bacteria_df[2].rank = "species"
    /\ valid_bacteria_df[2].species = <<"S", "a", SP, "s", "p", DOT>>
    /\ DOMAIN microorganism_taxid_dict =
           {<<"S", "a", SP, "a">>, <<"S", DOT, SP, "a">>,
            <<"S", "a", SP, "s", "p", DOT>>}
    /\ microorganism_taxid_dict[<<"S", "a", SP, "s", "p", DOT>>].corrected_name
           = <<"S", "a">>

----------------------------------------------------------------------------
(* The category nodes *)

\* the nodes an is_a path of one edge or more leads to from the nodes of S
RECURSIVE Ancestors(_, _)
Ancestors(S, seen) ==
    LET step == UNION {Range(graph.adj[v]) : v \in S} \ seen
    IN  IF step = {} THEN seen ELSE Ancestors(step, seen \cup step)

LinkedToCategory(v) ==
    \E a \in Ancestors({v}, {}) : graph.name[a] = category

SearchDone == mpc = "obo" /\ source_i > Len(graph.nodes)

(* C13: get_nodes_by_category returns exactly the nodes from which an is_a
   path of one edge or more leads to a node named category, each listed
   once. *)
C13_CategoryMembership ==
    SearchDone =>
        /\ \A v \in Range(graph.nodes) :
               v \in Range(category_nodes) <=> LinkedToCategory(v)
        /\ \A i, j \in 1..Len(category_nodes) :
               category_nodes[i] = category_nodes[j] => i = j

====
